---- MODULE Spec2Model ----
(***************************************************************************)
(* vkParticle: the per-frame protocol of vkParticle::drawFrame, the        *)
(* swapchain recreation, the window callbacks and the device queue that    *)
(* executes the submitted compute and graphics batches.                    *)
(*                                                                         *)
(* The host is one thread; its position is pc.  The device executes the    *)
(* batches of MQueue in any order the timeline semaphore waits allow.      *)
(* The window system changes the framebuffer size at any time and          *)
(* delivers its events inside glfwPollEvents and glfwWaitEvents.           *)
(***************************************************************************)
EXTENDS Integers, Sequences, FiniteSets, TLC

(* ------------------------------ bounds --------------------------------- *)
\* frames drawn in one run
MaxFrames == 3
\* framebuffer resizes the user performs in one run
MaxResizes == 2
\* framebuffer sizes are 0 x 0 (minimised) and w x 1 for w in 1..MaxWidth
MaxWidth == 2
\* frame counts tried by the descriptor-set specification
MaxFramesInFlight == 16
\* particle counts tried by the dispatch specification: SParticleCount +- MaxParticleDelta
MaxParticleDelta == 64
\* values of time(nullptr) tried by the storage-buffer specification
MaxSeed == 10
\* particles held by a buffer of the storage-buffer specification
MaxParticles == 2
\* queue families of the device tried by the logical-device specification
MaxFamilies == 3
\* physical devices enumerated in the device-selection specification
MaxDevices == 2
\* surface formats reported by one call of getSurfaceFormatsKHR
MaxFormats == 2

(* ------------------------- program constants --------------------------- *)
SMaxFramesInFlight == 2
\* chooseSwapMinImageCount: at least three images
SwapChainImageCount == 3
\* width of size_t, the type of the loop index of createComputeDescriptorSets
SizeTBits == 64
SParticleCount == 8192
\* dispatch(ParticleCount / 256, 1, 1)
WorkGroupSize == 256

Slots == 0 .. (SMaxFramesInFlight - 1)
FramebufferSizes == {<<0, 0>>} \cup ((1 .. MaxWidth) \X {1})
InitialFramebufferSize == <<1, 1>>
\* capabilities.currentExtent.width == 0xFFFFFFFF: the extent follows the window
UndefinedCurrentExtent == <<-1, -1>>
NoFrame == 0 - 1
InitialUpload == 0 - 1
NotRead == 0 - 2
\* main has not returned
NoExit == 0 - 1000
\* the contents of a buffer that was created and never written, or read after release
Garbage == <<>>
\* the contents of a buffer that has been destroyed
Released == <<0 - 1>>
\* MQueueIndex = ~0
NoQueueIndex == 0 - 1
\* a queue family of the device in use that supports everything
FullFamily == {"graphics", "compute", "present"}

VARIABLES
  pc,                     \* position of the host thread
  MCurrentFrame,
  MTimelineValue,
  MFramebufferResized,
  MInFlightFences,        \* slot -> "unsignaled" | "pending" | "signaled"
  MSwapChain,             \* id of the live swapchain, 0 = nullptr
  MSwapChainExtent,
  MSwapChainImageViews,   \* id of the swapchain the views belong to, 0 = empty
  MComputeDescriptorSets, \* slot -> [uniform, lastFrame, currentFrame]
  MShaderStorageBuffers,  \* slot -> frame whose compute wrote it last
  MUniformBuffersMapped,  \* slot -> frame whose delta time it holds
  result,                 \* drawFrame: result
  imageIndex,             \* drawFrame: imageIndex
  timeline,               \* drawFrame: the four wait/signal values
  size,                   \* recreateSwapChain: <<width, height>>
  waitResult,             \* result of the last fence / semaphore wait
  semaphore,              \* counter value of MSemaphore on the device
  queue,                  \* batches submitted to MQueue and not completed
  framebufferSize,        \* what glfwGetFramebufferSize returns
  events,                 \* window events not yet delivered
  windowShouldClose,
  descF,                  \* createComputeDescriptorSets: frame count
  descI,                  \* createComputeDescriptorSets: loop index i
  \* ---- observation of the run (never read by the program) ----
  framesStarted,          \* drawFrame calls entered
  framesReturned,         \* drawFrame calls that returned normally
  frameStartValue,        \* MTimelineValue at the start of the frame
  frameStartSlot,         \* MCurrentFrame at the start of the frame
  signalPairs,            \* frame -> <<compute signal, graphics signal>>
  acquired,               \* what acquireNextImage of the current frame returned, and from where
  computeDone,            \* frames whose compute dispatch completed
  lastPresent,            \* the present call of the current frame
  examined,               \* what the branch after that present examined
  swapChainsCreated,      \* swapchains created so far
  createdInFrame,         \* swapchains created by the current drawFrame
  rebuildCause,           \* why the current frame triggered a recreation
  resizedInPoll,          \* a resize callback ran in glfwPollEvents since the flag was cleared
  resizes,                \* resizes performed by the user
  frameSteps,             \* steps the current drawFrame has executed, in order
  recreateSteps,          \* steps the current recreateSwapChain has executed, in order
  \* ---- main and initVulkan ----
  exitCode,               \* value main returned (NoExit while running)
  stderrWritten,          \* main wrote e.what() to std::cerr
  runReturned,            \* run() returned normally
  initFailed,             \* initVulkan threw
  queueFamilies,          \* getQueueFamilyProperties() with surface support per family
  qfpIndex,               \* createLogicalDevice: loop index
  MQueueIndex,
  queuesCreated,          \* queues created with the logical device
  particleCount,          \* ParticleCount the command buffer is recorded with
  dispatchGroups,         \* group count of the recorded dispatch
  seed,                   \* time(nullptr) at createShaderStorageBuffers
  particles,              \* host array of seeded particles
  stagingBuffer,          \* contents of the staging buffer
  storageBuffers,         \* contents of the storage buffers created so far
  shaderStorageBufferTemp, \* contents of the buffer the current iteration created
  copyPending,            \* copy batches submitted by copyBuffer and not completed
  devices,                \* enumeratePhysicalDevices()
  MPhysicalDevice,        \* position in devices of the device picked, 0 = none
  MSwapChainSurfaceFormat,
  swapChainImageFormat,   \* imageFormat the live swapchain was created with
  imageViewFormat,        \* format the image views were created with
  pipelineColorAttachmentFormat, \* pColorAttachmentFormats[0] of MGraphicsPipeline
  recordedRendering       \* formats the last recorded graphics command buffer brings together

swapVars == <<MSwapChain, MSwapChainExtent, MSwapChainImageViews, swapChainsCreated,
              createdInFrame>>
descVars == <<MComputeDescriptorSets, descF, descI>>
localVars == <<result, imageIndex, timeline, size, waitResult>>
winVars == <<framebufferSize, events, windowShouldClose, resizes>>
frameObs == <<framesStarted, framesReturned, frameStartValue, frameStartSlot, signalPairs,
              acquired>>
presentObs == <<lastPresent, examined, rebuildCause>>
stepObs == <<frameSteps, recreateSteps>>
mainVars == <<exitCode, stderrWritten, runReturned, initFailed>>
deviceVars == <<queueFamilies, qfpIndex, MQueueIndex, queuesCreated>>
dispatchVars == <<particleCount, dispatchGroups>>
storageVars == <<seed, particles, stagingBuffer, storageBuffers, shaderStorageBufferTemp,
                 copyPending>>
pickVars == <<devices, MPhysicalDevice>>
formatVars == <<MSwapChainSurfaceFormat, swapChainImageFormat, imageViewFormat,
                pipelineColorAttachmentFormat, recordedRendering>>
initVars == <<mainVars, deviceVars, dispatchVars, storageVars, pickVars, formatVars>>

vars == <<pc, MCurrentFrame, MTimelineValue, MFramebufferResized, MInFlightFences,
          swapVars, descVars, MShaderStorageBuffers, MUniformBuffersMapped,
          localVars, semaphore, queue, winVars, frameObs, computeDone, presentObs,
          resizedInPoll, stepObs, initVars>>

(* ----------------------------- descriptors ----------------------------- *)
\* 2^n mod F, computed without leaving the range of the checker's integers
RECURSIVE Pow2Mod(_, _)
Pow2Mod(n, F) == IF n = 0 THEN 1 % F ELSE (2 * Pow2Mod(n - 1, F)) % F

\* (i - 1) mod F over the integers
PreviousSlot(i, F) == (i - 1) % F

LastFrameIndexOwnSlot(i, F) == i % F
\* (i - 1) % SMaxFramesInFlight with i a size_t: i - 1 wraps to 2^64 - 1 for i = 0
LastFrameIndex(i, F) ==
  IF i > 0 THEN (i - 1) % F ELSE (Pow2Mod(SizeTBits, F) + F - 1) % F

\* the three bindings written for slot i
DescriptorWrites(i, F) ==
  [uniform |-> i, lastFrame |-> LastFrameIndex(i, F), currentFrame |-> i]

CreateComputeDescriptorSets(F) == [i \in 0 .. (F - 1) |-> DescriptorWrites(i, F)]

(* ------------------------------- Init ---------------------------------- *)
NoTimeline == [computeWait |-> 0, computeSignal |-> 0, graphicsWait |-> 0,
               graphicsSignal |-> 0, next |-> 0]
NoPresent == [frame |-> NoFrame, swapChain |-> 0, waitSemaphoreCount |-> 0,
              waited |-> "none", semaphore |-> 0, graphicsDone |-> FALSE]
NoExamined == [frame |-> NoFrame, result |-> "none", resized |-> FALSE]
NoAcquire == [index |-> 0 - 1, swapChain |-> 0]

\* the locals of drawFrame and recreateSwapChain outside a call of drawFrame
NoLocals ==
  /\ result = "none"
  /\ imageIndex = 0
  /\ timeline = NoTimeline
  /\ size = <<0, 0>>
  /\ waitResult = "none"

\* the state of the window, the device and the observation when initVulkan is entered
InitEnvironment ==
  /\ MCurrentFrame = 0
  /\ MFramebufferResized = FALSE
  /\ MSwapChain = 1
  /\ MSwapChainExtent = InitialFramebufferSize
  /\ MSwapChainImageViews = 1
  /\ swapChainsCreated = 1
  /\ createdInFrame = 0
  /\ MShaderStorageBuffers = [s \in Slots |-> InitialUpload]
  /\ MUniformBuffersMapped = [s \in Slots |-> NoFrame]
  /\ NoLocals
  /\ queue = {}
  /\ framebufferSize = InitialFramebufferSize
  /\ events = {}
  /\ windowShouldClose = FALSE
  /\ resizes = 0
  /\ framesStarted = 0
  /\ framesReturned = 0
  /\ frameStartValue = 0
  /\ frameStartSlot = 0
  /\ signalPairs = <<>>
  /\ acquired = NoAcquire
  /\ computeDone = {}
  /\ lastPresent = NoPresent
  /\ examined = NoExamined
  /\ rebuildCause = "none"
  /\ resizedInPoll = FALSE
  /\ frameSteps = <<>>
  /\ recreateSteps = <<>>
  /\ exitCode = NoExit
  /\ stderrWritten = FALSE
  /\ runReturned = FALSE
  /\ initFailed = FALSE

\* the device in use when no claim about createLogicalDevice is examined
InitDevice ==
  /\ queueFamilies = <<FullFamily>>
  /\ qfpIndex = 0
  /\ MQueueIndex = 0
  /\ queuesCreated = 1

\* the particle count the program is built with
InitDispatch ==
  /\ particleCount = SParticleCount
  /\ dispatchGroups = 0

\* the upload when no claim about createShaderStorageBuffers is examined
InitStorage ==
  /\ seed = 0
  /\ particles = Garbage
  /\ stagingBuffer = Garbage
  /\ storageBuffers = <<>>
  /\ shaderStorageBufferTemp = Garbage
  /\ copyPending = {}

\* the surface format chooseSwapSurfaceFormat looks for
PreferredSurfaceFormat == [format |-> "eB8G8R8A8Srgb", colorSpace |-> "eSrgbNonlinear"]

NoRendering == [pipeline |-> "none", attachment |-> "none", image |-> "none"]

\* the physical device when no claim about pickPhysicalDevice is examined
InitPick ==
  /\ devices = <<[capable |-> TRUE, families |-> <<FullFamily>>]>>
  /\ MPhysicalDevice = 1

\* the surface format when no claim about it is examined
InitFormat ==
  /\ MSwapChainSurfaceFormat = PreferredSurfaceFormat
  /\ swapChainImageFormat = PreferredSurfaceFormat.format
  /\ imageViewFormat = PreferredSurfaceFormat.format
  /\ pipelineColorAttachmentFormat = PreferredSurfaceFormat.format
  /\ recordedRendering = NoRendering

\* createSyncObjects: timeline semaphore created with value 0, counter 0, F unsignaled fences
createSyncObjects ==
  /\ semaphore = 0
  /\ MTimelineValue = 0
  /\ MInFlightFences = [s \in Slots |-> "unsignaled"]

\* the state when initVulkan has returned and mainLoop is entered
Init ==
  /\ InitEnvironment
  /\ InitDevice
  /\ InitDispatch
  /\ InitStorage
  /\ InitPick
  /\ InitFormat
  /\ createSyncObjects
  /\ descF = SMaxFramesInFlight
  /\ descI = SMaxFramesInFlight
  /\ MComputeDescriptorSets = CreateComputeDescriptorSets(SMaxFramesInFlight)
  /\ pc = "mainLoop"

(* --------------------------- window system ----------------------------- *)
\* framebufferResizeCallback: app->MFramebufferResized = true
framebufferResizeCallback(flag) == TRUE

\* delivery of the pending window events: the callbacks run
DeliverEvents ==
  /\ MFramebufferResized' =
       IF "resize" \in events THEN framebufferResizeCallback(MFramebufferResized)
       ELSE MFramebufferResized
  /\ windowShouldClose' = (windowShouldClose \/ "close" \in events)
  /\ events' = {}
  /\ UNCHANGED <<framebufferSize, resizes>>

\* the user resizes the window (a zero-area size is a minimised window)
UserResize ==
  /\ pc \notin {"fatal", "done", "exited"}
  /\ resizes < MaxResizes
  /\ \E s \in FramebufferSizes \ {framebufferSize} :
       /\ framebufferSize' = s
       /\ events' = events \cup {"resize"}
  /\ resizes' = resizes + 1
  /\ UNCHANGED <<pc, MCurrentFrame, MTimelineValue, MFramebufferResized, MInFlightFences,
                 swapVars, descVars, stepObs, initVars, MShaderStorageBuffers, MUniformBuffersMapped,
                 localVars, semaphore, queue, windowShouldClose, frameObs, computeDone,
                 presentObs, resizedInPoll>>

\* the user presses escape, closes the window, or produces any other input event; an
\* event without a callback only matters while the host sleeps in glfwWaitEvents
UserInput ==
  /\ pc \notin {"fatal", "done", "exited"}
  /\ \E e \in {"close", "other"} :
       /\ e \notin events
       /\ ~(e = "close" /\ windowShouldClose)
       /\ e = "other" => pc = "glfwWaitEvents"
       /\ events' = events \cup {e}
  /\ UNCHANGED <<pc, MCurrentFrame, MTimelineValue, MFramebufferResized, MInFlightFences,
                 swapVars, descVars, stepObs, initVars, MShaderStorageBuffers, MUniformBuffersMapped,
                 localVars, semaphore, queue, framebufferSize, windowShouldClose, resizes,
                 frameObs, computeDone, presentObs, resizedInPoll>>

(* ------------------------------ mainLoop ------------------------------- *)
DeviceIdleNoWait(q) == TRUE
\* waitIdle returns once every operation submitted to the queue has completed
DeviceIdle(q) == q = {}

\* while (escape not pressed && !glfwWindowShouldClose(MWindow))
MainLoopCondition ==
  /\ pc = "mainLoop"
  /\ IF windowShouldClose THEN pc' = "waitIdle"
     ELSE /\ framesStarted < MaxFrames
          /\ pc' = "glfwPollEvents"
  /\ UNCHANGED <<MCurrentFrame, MTimelineValue, MFramebufferResized, MInFlightFences,
                 swapVars, descVars, stepObs, initVars, MShaderStorageBuffers, MUniformBuffersMapped,
                 localVars, semaphore, queue, winVars, frameObs, computeDone, presentObs,
                 resizedInPoll>>

GlfwPollEvents ==
  /\ pc = "glfwPollEvents"
  /\ DeliverEvents
  /\ resizedInPoll' = (resizedInPoll \/ "resize" \in events)
  /\ pc' = "drawFrame"
  /\ UNCHANGED <<MCurrentFrame, MTimelineValue, MInFlightFences, swapVars, descVars, stepObs, initVars,
                 MShaderStorageBuffers, MUniformBuffersMapped, localVars, semaphore, queue,
                 frameObs, computeDone, presentObs>>

\* MDevice.waitIdle() after the loop, then cleanup()
MainLoopWaitIdle ==
  /\ pc = "waitIdle"
  /\ DeviceIdle(queue)
  /\ pc' = "cleanup"
  /\ UNCHANGED <<MCurrentFrame, MTimelineValue, MFramebufferResized, MInFlightFences,
                 swapVars, descVars, stepObs, initVars, MShaderStorageBuffers, MUniformBuffersMapped,
                 localVars, semaphore, queue, winVars, frameObs, computeDone, presentObs,
                 resizedInPoll>>

cleanup ==
  /\ pc = "cleanup"
  /\ pc' = "done"
  /\ runReturned' = TRUE
  /\ UNCHANGED <<MCurrentFrame, MTimelineValue, MFramebufferResized, MInFlightFences,
                 swapVars, descVars, stepObs, exitCode, stderrWritten, initFailed, deviceVars,
                 dispatchVars, storageVars, pickVars, formatVars,
                 MShaderStorageBuffers, MUniformBuffersMapped,
                 localVars, semaphore, queue, winVars, frameObs, computeDone, presentObs,
                 resizedInPoll>>

(* ------------------------------ drawFrame ------------------------------ *)
\* the record of the steps executed: the iterations of a wait or poll loop are
\* recorded as one step
AppendStep(steps, label) ==
  IF steps /= <<>> /\ steps[Len(steps)] = label THEN steps ELSE Append(steps, label)

CurrentFrameNumber == framesStarted - 1

\* the swapchain no longer matches the surface
SwapChainStale == MSwapChainExtent /= framebufferSize

\* results vkAcquireNextImageKHR hands back to drawFrame
AcquireResults ==
  {"eSuccess"} \cup (IF SwapChainStale THEN {"eSuboptimalKHR", "eErrorOutOfDateKHR"} ELSE {})

\* results vkQueuePresentKHR hands back to drawFrame
PresentResults ==
  {"eSuccess", "eErrorDeviceLost"}
    \cup (IF SwapChainStale THEN {"eSuboptimalKHR", "eErrorOutOfDateKHR"} ELSE {})

\* MSwapChain.acquireNextImage(UINT64_MAX, nullptr, *MInFlightFences[MCurrentFrame]):
\* the fence is signaled once the image is available; a failed acquire leaves it alone
AcquireNextImage ==
  /\ pc = "drawFrame"
  /\ \E r \in AcquireResults, idx \in 0 .. (SwapChainImageCount - 1) :
       /\ result' = r
       /\ imageIndex' = idx
       /\ acquired' = [index |-> idx, swapChain |-> MSwapChain]
       /\ MInFlightFences' =
            IF r \in {"eSuccess", "eSuboptimalKHR"}
            THEN [MInFlightFences EXCEPT ![MCurrentFrame] = "pending"]
            ELSE MInFlightFences
  /\ framesStarted' = framesStarted + 1
  /\ frameStartValue' = MTimelineValue
  /\ frameStartSlot' = MCurrentFrame
  /\ createdInFrame' = 0
  /\ lastPresent' = NoPresent
  /\ examined' = NoExamined
  /\ rebuildCause' = "none"
  /\ pc' = "waitForFences"
  /\ frameSteps' = <<"Acquire">>
  /\ recreateSteps' = <<>>
  /\ UNCHANGED <<MCurrentFrame, MTimelineValue, MFramebufferResized, MSwapChain,
                 MSwapChainExtent, MSwapChainImageViews, swapChainsCreated, descVars, initVars,
                 MShaderStorageBuffers, MUniformBuffersMapped, timeline, size, waitResult,
                 semaphore, queue, winVars, framesReturned, signalPairs, computeDone,
                 resizedInPoll>>

\* vkWaitForFences on one fence
WaitForFencesResult(fence) == IF fence = "signaled" THEN "eSuccess" ELSE "eTimeout"

WaitLoopExitsAlways(r) == TRUE
WaitLoopExitsOnTimeout(r) == r = "eTimeout"
\* while (vk::Result::eTimeout == wait(...)) ;
WaitLoopExits(r) == r /= "eTimeout"

\* the fence wait loop of drawFrame: one call of waitForFences
WaitForFences ==
  /\ pc = "waitForFences"
  /\ waitResult' = WaitForFencesResult(MInFlightFences[MCurrentFrame])
  /\ pc' = IF WaitLoopExits(waitResult') THEN "resetFences" ELSE "waitForFences"
  /\ frameSteps' = AppendStep(frameSteps, "WaitFence")
  /\ UNCHANGED <<MCurrentFrame, MTimelineValue, MFramebufferResized, MInFlightFences,
                 swapVars, descVars, recreateSteps, initVars, MShaderStorageBuffers, MUniformBuffersMapped,
                 result, imageIndex, timeline, size, semaphore, queue, winVars, frameObs,
                 computeDone, presentObs, resizedInPoll>>

TimelineValuesGraphicsWaitsEarly(V) ==
  [computeWait |-> V, computeSignal |-> V + 1, graphicsWait |-> V,
   graphicsSignal |-> V + 2, next |-> V + 2]
TimelineValuesPostIncrement(V) ==
  [computeWait |-> V, computeSignal |-> V, graphicsWait |-> V,
   graphicsSignal |-> V + 1, next |-> V + 2]
TimelineValuesOneTick(V) ==
  [computeWait |-> V, computeSignal |-> V + 1, graphicsWait |-> V + 1,
   graphicsSignal |-> V + 1, next |-> V + 1]
TimelineValuesNoAdvance(V) ==
  [computeWait |-> V, computeSignal |-> V + 1, graphicsWait |-> V + 1,
   graphicsSignal |-> V + 2, next |-> V]
\* computeWaitValue = MTimelineValue; computeSignalValue = ++MTimelineValue;
\* graphicsWaitValue = computeSignalValue; graphicsSignalValue = ++MTimelineValue;
\* next is MTimelineValue afterwards
TimelineValues(V) ==
  [computeWait |-> V, computeSignal |-> V + 1, graphicsWait |-> V + 1,
   graphicsSignal |-> V + 2, next |-> V + 2]

resetFencesOtherSlot(fences, c) ==
  [fences EXCEPT ![(c + 1) % SMaxFramesInFlight] = "unsignaled"]
\* MDevice.resetFences(*MInFlightFences[MCurrentFrame])
resetFences(fences, c) == [fences EXCEPT ![c] = "unsignaled"]

\* MDevice.resetFences(...) and the timeline values of the frame
ResetFences ==
  /\ pc = "resetFences"
  /\ MInFlightFences' = resetFences(MInFlightFences, MCurrentFrame)
  /\ timeline' = TimelineValues(MTimelineValue)
  /\ MTimelineValue' = timeline'.next
  /\ signalPairs' = Append(signalPairs, <<timeline'.computeSignal, timeline'.graphicsSignal>>)
  /\ pc' = "updateUniformBuffer"
  /\ frameSteps' = Append(frameSteps, "ResetFence")
  /\ UNCHANGED <<MCurrentFrame, MFramebufferResized, swapVars, descVars, recreateSteps, initVars,
                 MShaderStorageBuffers, MUniformBuffersMapped, result, imageIndex, size,
                 waitResult, semaphore, queue, winVars, framesStarted, framesReturned,
                 frameStartValue, frameStartSlot, acquired, computeDone, presentObs,
                 resizedInPoll>>

\* memcpy(MUniformBuffersMapped[currentImage], &ubo, sizeof(ubo))
updateUniformBuffer ==
  /\ pc = "updateUniformBuffer"
  /\ MUniformBuffersMapped' =
       [MUniformBuffersMapped EXCEPT ![MCurrentFrame] = CurrentFrameNumber]
  /\ pc' = "submitCompute"
  /\ frameSteps' = Append(frameSteps, "UpdateUniform")
  /\ UNCHANGED <<MCurrentFrame, MTimelineValue, MFramebufferResized, MInFlightFences,
                 swapVars, descVars, recreateSteps, initVars, MShaderStorageBuffers, localVars, semaphore, queue,
                 winVars, frameObs, computeDone, presentObs, resizedInPoll>>

\* dispatch(ParticleCount / 256, 1, 1): unsigned integer division
DispatchGroupCount(n) == n \div WorkGroupSize

\* recordComputeCommandBuffer: binds MComputeDescriptorSets[MCurrentFrame], one dispatch
recordComputeCommandBuffer ==
  [uniform |-> MComputeDescriptorSets[MCurrentFrame].uniform,
   src |-> MComputeDescriptorSets[MCurrentFrame].lastFrame,
   dst |-> MComputeDescriptorSets[MCurrentFrame].currentFrame,
   groups |-> DispatchGroupCount(particleCount)]

recordGraphicsCommandBufferInitialExtent(index) ==
  [uniform |-> NoFrame, src |-> MCurrentFrame, dst |-> index,
   image |-> MSwapChain, view |-> MSwapChainImageViews,
   renderArea |-> InitialFramebufferSize, viewport |-> InitialFramebufferSize,
   scissor |-> InitialFramebufferSize]
recordGraphicsCommandBufferFrameIndex(index) ==
  [uniform |-> NoFrame, src |-> MCurrentFrame, dst |-> MCurrentFrame,
   image |-> MSwapChain, view |-> MSwapChainImageViews,
   renderArea |-> MSwapChainExtent, viewport |-> MSwapChainExtent,
   scissor |-> MSwapChainExtent]
\* recordGraphicsCommandBuffer(imageIndex): renders to MSwapChainImages[imageIndex]
\* through MSwapChainImageViews[imageIndex] with MShaderStorageBuffers[MCurrentFrame] as
\* the vertex buffer; the render area, the dynamic viewport and the dynamic scissor
\* are set from MSwapChainExtent
recordGraphicsCommandBuffer(index) ==
  [uniform |-> NoFrame, src |-> MCurrentFrame, dst |-> index,
   image |-> MSwapChain, view |-> MSwapChainImageViews,
   renderArea |-> MSwapChainExtent, viewport |-> MSwapChainExtent,
   scissor |-> MSwapChainExtent]

\* a batch handed to MQueue.submit with one timeline wait and one timeline signal
Batch(kind, cmd, wait, signal) ==
  [kind |-> kind, frame |-> CurrentFrameNumber, slot |-> MCurrentFrame, cmd |-> cmd,
   wait |-> wait, signal |-> signal, st |-> "queued", read |-> NotRead]

\* record the compute command buffer and submit it
SubmitCompute ==
  /\ pc = "submitCompute"
  /\ queue' = queue \cup {Batch("compute", recordComputeCommandBuffer,
                                timeline.computeWait, timeline.computeSignal)}
  /\ pc' = "submitGraphics"
  /\ frameSteps' = Append(frameSteps, "SubmitCompute")
  /\ UNCHANGED <<MCurrentFrame, MTimelineValue, MFramebufferResized, MInFlightFences,
                 swapVars, descVars, recreateSteps, initVars, MShaderStorageBuffers, MUniformBuffersMapped,
                 localVars, semaphore, winVars, frameObs, computeDone, presentObs,
                 resizedInPoll>>

\* record the graphics command buffer and submit it
SubmitGraphics ==
  /\ pc = "submitGraphics"
  /\ queue' = queue \cup {Batch("graphics", recordGraphicsCommandBuffer(imageIndex),
                                timeline.graphicsWait, timeline.graphicsSignal)}
  /\ pc' = "waitSemaphores"
  /\ frameSteps' = Append(frameSteps, "SubmitGraphics")
  /\ UNCHANGED <<MCurrentFrame, MTimelineValue, MFramebufferResized, MInFlightFences,
                 swapVars, descVars, recreateSteps, initVars, MShaderStorageBuffers, MUniformBuffersMapped,
                 localVars, semaphore, winVars, frameObs, computeDone, presentObs,
                 resizedInPoll>>

WaitSemaphoresResultNoWait(counter, value) == "eSuccess"
\* vkWaitSemaphores on one timeline semaphore
WaitSemaphoresResult(counter, value) == IF counter >= value THEN "eSuccess" ELSE "eTimeout"

HostWaitValueCompute(t) == t.computeSignal
\* waitInfo.pValues = &graphicsSignalValue
HostWaitValue(t) == t.graphicsSignal

\* the host wait for graphicsSignalValue: one call of waitSemaphores
WaitSemaphores ==
  /\ pc = "waitSemaphores"
  /\ waitResult' = WaitSemaphoresResult(semaphore, HostWaitValue(timeline))
  /\ pc' = IF WaitLoopExits(waitResult') THEN "presentKHR" ELSE "waitSemaphores"
  /\ UNCHANGED <<MCurrentFrame, MTimelineValue, MFramebufferResized, MInFlightFences,
                 swapVars, descVars, stepObs, initVars, MShaderStorageBuffers, MUniformBuffersMapped,
                 result, imageIndex, timeline, size, semaphore, queue, winVars, frameObs,
                 computeDone, presentObs, resizedInPoll>>

PresentBranchIgnoresSuboptimal(r, resized) ==
  IF r = "eErrorOutOfDateKHR" \/ resized THEN "recreate"
  ELSE IF r /= "eSuccess" /\ r /= "eSuboptimalKHR" THEN "throw"
  ELSE "advance"
\* if (result == eErrorOutOfDateKHR || result == eSuboptimalKHR || MFramebufferResized)
\* ... else if (result != eSuccess) throw
PresentBranch(r, resized) ==
  IF r = "eErrorOutOfDateKHR" \/ r = "eSuboptimalKHR" \/ resized THEN "recreate"
  ELSE IF r /= "eSuccess" THEN "throw"
  ELSE "advance"

\* why a recreation was triggered
RebuildCause(r) ==
  IF r \in {"eErrorOutOfDateKHR", "eSuboptimalKHR"} THEN "present"
  ELSE IF resizedInPoll THEN "resize"
  ELSE "callbackInRecreate"

\* presentInfo: one swapchain, one image, no wait semaphore
PresentRequest == [swapChain |-> MSwapChain, image |-> imageIndex]

\* MQueue.presentKHR(presentInfo) and the branch on its result; an accepted request
\* is queued on MQueue (the latest entry stands for all requests still outstanding)
PresentKHR ==
  /\ pc = "presentKHR"
  /\ \E r \in PresentResults :
       /\ result' = r
       /\ queue' = IF r \in {"eSuccess", "eSuboptimalKHR"}
                   THEN {b \in queue : b.kind /= "present"}
                          \cup {Batch("present", PresentRequest, 0, 0)}
                   ELSE queue
       /\ examined' = [frame |-> CurrentFrameNumber, result |-> r,
                       resized |-> MFramebufferResized]
       /\ LET branch == PresentBranch(r, MFramebufferResized) IN
            /\ pc' = CASE branch = "recreate" -> "recreateSwapChain"
                       [] branch = "throw" -> "fatal"
                       [] OTHER -> "advance"
            /\ MFramebufferResized' = IF branch = "recreate" THEN FALSE
                                      ELSE MFramebufferResized
            /\ resizedInPoll' = IF branch = "recreate" THEN FALSE ELSE resizedInPoll
            /\ rebuildCause' = IF branch = "recreate" THEN RebuildCause(r)
                               ELSE rebuildCause
  /\ lastPresent' = [frame |-> CurrentFrameNumber,
                     swapChain |-> MSwapChain, waitSemaphoreCount |-> 0,
                     waited |-> waitResult, semaphore |-> semaphore,
                     graphicsDone |-> (\A b \in queue : b.frame /= CurrentFrameNumber)]
  /\ frameSteps' = Append(frameSteps, "Present")
  /\ UNCHANGED <<MCurrentFrame, MTimelineValue, MInFlightFences, swapVars, descVars, recreateSteps, initVars,
                 MShaderStorageBuffers, MUniformBuffersMapped, imageIndex, timeline, size,
                 waitResult, semaphore, winVars, frameObs, computeDone>>

NextFrameStuck(c) == c
NextFrame(c) == (c + 1) % SMaxFramesInFlight

\* MCurrentFrame = (MCurrentFrame + 1) % SMaxFramesInFlight; drawFrame returns
Advance ==
  /\ pc = "advance"
  /\ MCurrentFrame' = NextFrame(MCurrentFrame)
  /\ framesReturned' = framesReturned + 1
  /\ pc' = "mainLoop"
  /\ result' = "none"
  /\ imageIndex' = 0
  /\ timeline' = NoTimeline
  /\ size' = <<0, 0>>
  /\ waitResult' = "none"
  /\ acquired' = NoAcquire
  /\ frameSteps' = Append(frameSteps, "Advance")
  /\ UNCHANGED <<MTimelineValue, MFramebufferResized, MInFlightFences, swapVars, descVars, recreateSteps, initVars,
                 MShaderStorageBuffers, MUniformBuffersMapped, semaphore, queue,
                 winVars, framesStarted, frameStartValue, frameStartSlot, signalPairs,
                 computeDone, presentObs, resizedInPoll>>

(* -------------------------- recreateSwapChain -------------------------- *)
ZeroArea(sz) == sz[1] = 0 \/ sz[2] = 0

RecreateLoopSkipsWaitIdle(sz) ==
  IF ZeroArea(sz) THEN "recreateLoopBody" ELSE "cleanupSwapChain"
\* while (width == 0 || height == 0) { ... }  MDevice.waitIdle();
RecreateLoop(sz) == IF ZeroArea(sz) THEN "recreateLoopBody" ELSE "recreateWaitIdle"

\* int width = 0, height = 0; glfwGetFramebufferSize(...); while (width == 0 || height == 0)
RecreateGetFramebufferSize ==
  /\ pc = "recreateSwapChain"
  /\ size' = framebufferSize
  /\ pc' = RecreateLoop(size')
  /\ recreateSteps' = AppendStep(recreateSteps, "poll")
  /\ UNCHANGED <<MCurrentFrame, MTimelineValue, MFramebufferResized, MInFlightFences,
                 swapVars, descVars, frameSteps, initVars, MShaderStorageBuffers, MUniformBuffersMapped,
                 result, imageIndex, timeline, waitResult, semaphore, queue, winVars,
                 frameObs, computeDone, presentObs, resizedInPoll>>

\* loop body, first statement: glfwGetFramebufferSize(MWindow, &width, &height)
RecreateLoopGetFramebufferSize ==
  /\ pc = "recreateLoopBody"
  /\ size' = framebufferSize
  /\ pc' = "glfwWaitEvents"
  /\ recreateSteps' = AppendStep(recreateSteps, "poll")
  /\ UNCHANGED <<MCurrentFrame, MTimelineValue, MFramebufferResized, MInFlightFences,
                 swapVars, descVars, frameSteps, initVars, MShaderStorageBuffers, MUniformBuffersMapped,
                 result, imageIndex, timeline, waitResult, semaphore, queue, winVars,
                 frameObs, computeDone, presentObs, resizedInPoll>>

\* loop body, second statement: glfwWaitEvents() blocks until an event arrives and
\* delivers the pending events; then the loop condition is evaluated
GlfwWaitEvents ==
  /\ pc = "glfwWaitEvents"
  /\ events /= {}
  /\ DeliverEvents
  /\ pc' = RecreateLoop(size)
  /\ UNCHANGED <<MCurrentFrame, MTimelineValue, MInFlightFences, swapVars, descVars, stepObs, initVars,
                 MShaderStorageBuffers, MUniformBuffersMapped, localVars, semaphore, queue,
                 frameObs, computeDone, presentObs, resizedInPoll>>

\* MDevice.waitIdle()
RecreateWaitIdle ==
  /\ pc = "recreateWaitIdle"
  /\ DeviceIdle(queue)
  /\ pc' = "cleanupSwapChain"
  /\ recreateSteps' = Append(recreateSteps, "waitIdle")
  /\ UNCHANGED <<MCurrentFrame, MTimelineValue, MFramebufferResized, MInFlightFences,
                 swapVars, descVars, frameSteps, initVars, MShaderStorageBuffers, MUniformBuffersMapped,
                 localVars, semaphore, queue, winVars, frameObs, computeDone, presentObs,
                 resizedInPoll>>

\* MSwapChainImageViews.clear(); MSwapChain = nullptr
cleanupSwapChain ==
  /\ pc = "cleanupSwapChain"
  /\ MSwapChainImageViews' = 0
  /\ MSwapChain' = 0
  /\ pc' = "createSwapChain"
  /\ recreateSteps' = Append(recreateSteps, "destroy")
  /\ UNCHANGED <<MCurrentFrame, MTimelineValue, MFramebufferResized, MInFlightFences,
                 MSwapChainExtent, swapChainsCreated, createdInFrame, descVars, frameSteps, initVars,
                 MShaderStorageBuffers, MUniformBuffersMapped, localVars, semaphore, queue,
                 winVars, frameObs, computeDone, presentObs, resizedInPoll>>

Clamp(v, lo, hi) == IF v < lo THEN lo ELSE IF v > hi THEN hi ELSE v

\* chooseSwapExtent: the surface's current extent, or the framebuffer size clamped to
\* the surface's limits (here 1..MaxWidth by 1..1) when the surface has none
chooseSwapExtent(currentExtent) ==
  IF currentExtent[1] /= UndefinedCurrentExtent[1] THEN currentExtent
  ELSE <<Clamp(framebufferSize[1], 1, MaxWidth), Clamp(framebufferSize[2], 1, 1)>>

createSwapChain ==
  /\ pc = "createSwapChain"
  /\ \E currentExtent \in {framebufferSize, UndefinedCurrentExtent} :
       MSwapChainExtent' = chooseSwapExtent(currentExtent)
  /\ MSwapChain' = swapChainsCreated + 1
  /\ swapChainsCreated' = swapChainsCreated + 1
  /\ createdInFrame' = createdInFrame + 1
  /\ pc' = "createImageViews"
  /\ recreateSteps' = Append(recreateSteps, "createSwapChain")
  /\ UNCHANGED <<MCurrentFrame, MTimelineValue, MFramebufferResized, MInFlightFences,
                 MSwapChainImageViews, descVars, frameSteps, initVars, MShaderStorageBuffers,
                 MUniformBuffersMapped, localVars, semaphore, queue, winVars, frameObs,
                 computeDone, presentObs, resizedInPoll>>

createImageViewsResetsFrame ==
  /\ pc = "createImageViews"
  /\ MSwapChainImageViews' = MSwapChain
  /\ MCurrentFrame' = 0
  /\ pc' = "advance"
  /\ recreateSteps' = Append(recreateSteps, "createImageViews")
  /\ UNCHANGED <<MTimelineValue, MFramebufferResized, MInFlightFences,
                 MSwapChain, MSwapChainExtent, swapChainsCreated, createdInFrame, descVars, frameSteps, initVars,
                 MShaderStorageBuffers, MUniformBuffersMapped, localVars, semaphore, queue,
                 winVars, frameObs, computeDone, presentObs, resizedInPoll>>
\* one view per image of MSwapChain; recreateSwapChain returns into drawFrame
createImageViews ==
  /\ pc = "createImageViews"
  /\ MSwapChainImageViews' = MSwapChain
  /\ pc' = "advance"
  /\ recreateSteps' = Append(recreateSteps, "createImageViews")
  /\ UNCHANGED <<MCurrentFrame, MTimelineValue, MFramebufferResized, MInFlightFences,
                 MSwapChain, MSwapChainExtent, swapChainsCreated, createdInFrame, descVars, frameSteps, initVars,
                 MShaderStorageBuffers, MUniformBuffersMapped, localVars, semaphore, queue,
                 winVars, frameObs, computeDone, presentObs, resizedInPoll>>

(* ------------------------------ the device ----------------------------- *)
\* a timeline wait for value v is satisfied once the counter has reached v
WaitSatisfied(b) == semaphore >= b.wait

deviceUnchanged ==
  UNCHANGED <<pc, MCurrentFrame, MTimelineValue, MFramebufferResized, swapVars, descVars, stepObs, initVars,
              MUniformBuffersMapped, localVars, winVars, frameObs, presentObs,
              resizedInPoll>>

\* the presentation engine releases the acquired image: the fence is signaled
FenceSignal ==
  /\ \E s \in DOMAIN MInFlightFences :
       /\ MInFlightFences[s] = "pending"
       /\ MInFlightFences' = [MInFlightFences EXCEPT ![s] = "signaled"]
  /\ deviceUnchanged
  /\ UNCHANGED <<semaphore, queue, MShaderStorageBuffers, computeDone>>

\* the dispatch starts (wait stage eComputeShader): it reads binding 1
ComputeBegin ==
  /\ \E b \in queue :
       /\ b.kind = "compute" /\ b.st = "queued"
       /\ WaitSatisfied(b)
       /\ queue' = (queue \ {b}) \cup
            {[b EXCEPT !.st = "running", !.read = MShaderStorageBuffers[b.cmd.src]]}
  /\ deviceUnchanged
  /\ UNCHANGED <<semaphore, MInFlightFences, MShaderStorageBuffers, computeDone>>

\* the dispatch completes: binding 2 is written, the batch signals its value
ComputeEnd ==
  /\ \E b \in queue :
       /\ b.kind = "compute" /\ b.st = "running"
       /\ queue' = queue \ {b}
       /\ MShaderStorageBuffers' = [MShaderStorageBuffers EXCEPT ![b.cmd.dst] = b.frame]
       /\ semaphore' = b.signal
       /\ computeDone' = computeDone \cup {b.frame}
  /\ deviceUnchanged
  /\ UNCHANGED MInFlightFences

\* the stages before the wait stage eVertexInput run without waiting
GraphicsBegin ==
  /\ \E b \in queue :
       /\ b.kind = "graphics" /\ b.st = "queued"
       /\ queue' = (queue \ {b}) \cup {[b EXCEPT !.st = "early"]}
  /\ deviceUnchanged
  /\ UNCHANGED <<semaphore, MInFlightFences, MShaderStorageBuffers, computeDone>>

\* vertex input starts: the draw reads the vertex buffer
GraphicsVertexInput ==
  /\ \E b \in queue :
       /\ b.kind = "graphics" /\ b.st = "early"
       /\ WaitSatisfied(b)
       /\ queue' = (queue \ {b}) \cup
            {[b EXCEPT !.st = "vertexInput", !.read = MShaderStorageBuffers[b.cmd.src]]}
  /\ deviceUnchanged
  /\ UNCHANGED <<semaphore, MInFlightFences, MShaderStorageBuffers, computeDone>>

\* the graphics batch completes and signals its value
GraphicsEnd ==
  /\ \E b \in queue :
       /\ b.kind = "graphics" /\ b.st = "vertexInput"
       /\ queue' = queue \ {b}
       /\ semaphore' = b.signal
  /\ deviceUnchanged
  /\ UNCHANGED <<MInFlightFences, MShaderStorageBuffers, computeDone>>

\* the presentation engine completes the outstanding present requests
PresentEnd ==
  /\ \E b \in queue :
       /\ b.kind = "present"
       /\ queue' = queue \ {b}
  /\ deviceUnchanged
  /\ UNCHANGED <<semaphore, MInFlightFences, MShaderStorageBuffers, computeDone>>

(* -------------------------------- main --------------------------------- *)
CatchReturnValueZero == 1 - 1
\* catch (const std::exception &e) { std::cerr << e.what() << std::endl; return -1; }
CatchReturnValue == 0 - 1

\* the exception thrown by run() reaches the handler of main
MainCatch ==
  /\ pc = "fatal"
  /\ stderrWritten' = TRUE
  /\ exitCode' = CatchReturnValue
  /\ pc' = "exited"
  /\ UNCHANGED <<runReturned, initFailed, deviceVars, dispatchVars, storageVars, stepObs,
                 pickVars, formatVars,
                 MCurrentFrame, MTimelineValue, MFramebufferResized, MInFlightFences,
                 swapVars, descVars, MShaderStorageBuffers, MUniformBuffersMapped,
                 localVars, semaphore, queue, winVars, frameObs, computeDone, presentObs,
                 resizedInPoll>>

\* run() returned: return 0
MainReturn ==
  /\ pc = "done"
  /\ exitCode' = 0
  /\ pc' = "exited"
  /\ UNCHANGED <<stderrWritten, runReturned, initFailed, deviceVars, dispatchVars,
                 storageVars, stepObs, pickVars, formatVars,
                 MCurrentFrame, MTimelineValue, MFramebufferResized, MInFlightFences,
                 swapVars, descVars, MShaderStorageBuffers, MUniformBuffersMapped,
                 localVars, semaphore, queue, winVars, frameObs, computeDone, presentObs,
                 resizedInPoll>>

(* --------------------------- specification ----------------------------- *)
Next ==
  \/ UserResize
  \/ UserInput
  \/ MainLoopCondition
  \/ GlfwPollEvents
  \/ MainLoopWaitIdle
  \/ cleanup
  \/ AcquireNextImage
  \/ WaitForFences
  \/ ResetFences
  \/ updateUniformBuffer
  \/ SubmitCompute
  \/ SubmitGraphics
  \/ WaitSemaphores
  \/ PresentKHR
  \/ Advance
  \/ RecreateGetFramebufferSize
  \/ RecreateLoopGetFramebufferSize
  \/ GlfwWaitEvents
  \/ RecreateWaitIdle
  \/ cleanupSwapChain
  \/ createSwapChain
  \/ createImageViews
  \/ FenceSignal
  \/ ComputeBegin
  \/ ComputeEnd
  \/ GraphicsBegin
  \/ GraphicsVertexInput
  \/ GraphicsEnd
  \/ PresentEnd
  \/ MainCatch
  \/ MainReturn

Spec == Init /\ [][Next]_vars

(* ------------------------ run() from its first line -------------------- *)
\* the steps of initVulkan, in order
InitVulkanSteps ==
  <<"createInstance", "setupDebugMessenger", "createSurface", "pickPhysicalDevice",
    "createLogicalDevice", "createSwapChain", "createImageViews",
    "createComputeDescriptorSetLayout", "createGraphicsPipeline", "createComputePipeline",
    "createCommandPool", "createShaderStorageBuffers", "createUniformBuffers",
    "createDescriptorPool", "createComputeDescriptorSets", "createGraphicsCommandBuffers",
    "createComputeCommandBuffers", "createSyncObjects">>

\* the steps that throw std::runtime_error: a layer or an extension is not supported,
\* no window surface, no suitable GPU, no queue family, a shader file cannot be opened,
\* no suitable memory type
InitVulkanThrows ==
  {"createInstance", "createSurface", "pickPhysicalDevice", "createLogicalDevice",
   "createGraphicsPipeline", "createShaderStorageBuffers"}

StepIndex(step) == CHOOSE i \in DOMAIN InitVulkanSteps : InitVulkanSteps[i] = step

\* step a has returned when step b throws
RanBefore(a, b) == StepIndex(a) < StepIndex(b)

\* the members of vkParticle after construction and initWindow
InitMain ==
  /\ pc = "initVulkan"
  /\ MCurrentFrame = 0
  /\ MFramebufferResized = FALSE
  /\ MSwapChain = 0
  /\ MSwapChainExtent = <<0, 0>>
  /\ MSwapChainImageViews = 0
  /\ swapChainsCreated = 0
  /\ createdInFrame = 0
  /\ MShaderStorageBuffers = <<>>
  /\ MUniformBuffersMapped = <<>>
  /\ MComputeDescriptorSets = <<>>
  /\ MInFlightFences = <<>>
  /\ MTimelineValue = 0
  /\ semaphore = 0
  /\ descF = SMaxFramesInFlight
  /\ descI = 0
  /\ NoLocals
  /\ queue = {}
  /\ framebufferSize = InitialFramebufferSize
  /\ events = {}
  /\ windowShouldClose = FALSE
  /\ resizes = 0
  /\ framesStarted = 0
  /\ framesReturned = 0
  /\ frameStartValue = 0
  /\ frameStartSlot = 0
  /\ signalPairs = <<>>
  /\ acquired = NoAcquire
  /\ computeDone = {}
  /\ lastPresent = NoPresent
  /\ examined = NoExamined
  /\ rebuildCause = "none"
  /\ resizedInPoll = FALSE
  /\ frameSteps = <<>>
  /\ recreateSteps = <<>>
  /\ exitCode = NoExit
  /\ stderrWritten = FALSE
  /\ runReturned = FALSE
  /\ initFailed = FALSE
  /\ queueFamilies = <<FullFamily>>
  /\ qfpIndex = 0
  /\ MQueueIndex = NoQueueIndex
  /\ queuesCreated = 0
  /\ InitDispatch
  /\ InitStorage
  /\ InitPick
  /\ InitFormat

\* initVulkan: every step returns and mainLoop is entered, or one step throws and the
\* steps after it never run
initVulkan ==
  /\ pc = "initVulkan"
  /\ \E thrower \in InitVulkanThrows \cup {"none"} :
       LET ran(step) == thrower = "none" \/ RanBefore(step, thrower) IN
         /\ pc' = IF thrower = "none" THEN "mainLoop" ELSE "fatal"
         /\ initFailed' = (thrower /= "none")
         /\ MQueueIndex' = IF ran("createLogicalDevice") THEN 0 ELSE MQueueIndex
         /\ queuesCreated' = IF ran("createLogicalDevice") THEN 1 ELSE queuesCreated
         /\ MSwapChain' = IF ran("createSwapChain") THEN 1 ELSE MSwapChain
         /\ swapChainsCreated' = IF ran("createSwapChain") THEN 1 ELSE swapChainsCreated
         /\ MSwapChainExtent' =
              IF ran("createSwapChain") THEN InitialFramebufferSize ELSE MSwapChainExtent
         /\ MSwapChainImageViews' = IF ran("createImageViews") THEN 1 ELSE MSwapChainImageViews
         /\ MShaderStorageBuffers' =
              IF ran("createShaderStorageBuffers") THEN [s \in Slots |-> InitialUpload]
              ELSE MShaderStorageBuffers
         /\ MUniformBuffersMapped' =
              IF ran("createUniformBuffers") THEN [s \in Slots |-> NoFrame]
              ELSE MUniformBuffersMapped
         /\ MComputeDescriptorSets' =
              IF ran("createComputeDescriptorSets")
              THEN CreateComputeDescriptorSets(SMaxFramesInFlight)
              ELSE MComputeDescriptorSets
         /\ descI' = IF ran("createComputeDescriptorSets") THEN SMaxFramesInFlight ELSE descI
         /\ MInFlightFences' =
              IF ran("createSyncObjects") THEN [s \in Slots |-> "unsignaled"]
              ELSE MInFlightFences
  /\ UNCHANGED <<MCurrentFrame, MTimelineValue, MFramebufferResized, createdInFrame, descF,
                 localVars, semaphore, queue, winVars, frameObs, computeDone, presentObs,
                 resizedInPoll, stepObs, exitCode, stderrWritten, runReturned,
                 queueFamilies, qfpIndex, dispatchVars, storageVars, pickVars, formatVars>>

NextMain == initVulkan \/ Next

SpecMain == InitMain /\ [][NextMain]_vars

(* ------------- createComputeDescriptorSets for any frame count --------- *)
\* createComputeDescriptorSets is entered with some frame count F >= 2
InitDescriptors ==
  /\ InitEnvironment
  /\ InitDevice
  /\ InitDispatch
  /\ InitStorage
  /\ InitPick
  /\ InitFormat
  /\ createSyncObjects
  /\ descF \in 2 .. MaxFramesInFlight
  /\ descI = 0
  /\ MComputeDescriptorSets = <<>>
  /\ pc = "createComputeDescriptorSets"

\* one iteration of for (size_t i = 0; i < SMaxFramesInFlight; i++)
createComputeDescriptorSets ==
  /\ pc = "createComputeDescriptorSets"
  /\ descI < descF
  /\ MComputeDescriptorSets' =
       [i \in 0 .. descI |-> IF i = descI THEN DescriptorWrites(descI, descF)
                             ELSE MComputeDescriptorSets[i]]
  /\ descI' = descI + 1
  /\ UNCHANGED <<pc, descF, stepObs, initVars, MCurrentFrame, MTimelineValue, MFramebufferResized,
                 MInFlightFences, swapVars, MShaderStorageBuffers, MUniformBuffersMapped,
                 localVars, semaphore, queue, winVars, frameObs, computeDone, presentObs,
                 resizedInPoll>>

NextDescriptors == createComputeDescriptorSets

SpecDescriptors == InitDescriptors /\ [][NextDescriptors]_vars

(* ---------------- recordComputeCommandBuffer for any particle count ---- *)
ParticleCounts == (SParticleCount - MaxParticleDelta) .. (SParticleCount + MaxParticleDelta)

\* the program is built with some particle count and records a compute command buffer
InitDispatchAny ==
  /\ InitEnvironment
  /\ InitDevice
  /\ InitStorage
  /\ InitPick
  /\ InitFormat
  /\ createSyncObjects
  /\ descF = SMaxFramesInFlight
  /\ descI = SMaxFramesInFlight
  /\ MComputeDescriptorSets = CreateComputeDescriptorSets(SMaxFramesInFlight)
  /\ particleCount \in ParticleCounts
  /\ dispatchGroups = 0
  /\ pc = "recordComputeCommandBuffer"

\* the command buffer is recorded: no check of the particle count precedes the dispatch
RecordDispatch ==
  /\ pc = "recordComputeCommandBuffer"
  /\ dispatchGroups' = recordComputeCommandBuffer.groups
  /\ pc' = "computeRecorded"
  /\ UNCHANGED <<particleCount, mainVars, deviceVars, storageVars, pickVars, formatVars,
                 stepObs, descVars,
                 MCurrentFrame, MTimelineValue, MFramebufferResized, MInFlightFences,
                 swapVars, MShaderStorageBuffers, MUniformBuffersMapped, localVars,
                 semaphore, queue, winVars, frameObs, computeDone, presentObs,
                 resizedInPoll>>

NextDispatch == RecordDispatch

SpecDispatch == InitDispatchAny /\ [][NextDispatch]_vars

(* ----------------------- createShaderStorageBuffers -------------------- *)
\* the k-th particle the generator seeded with s produces (the generator is
\* deterministic: the array is a function of the seed)
SeedParticle(s, k) == (s * 7 + k * 3) % 5

SeedParticles(s) == [k \in 1 .. MaxParticles |-> SeedParticle(s, k)]

\* the memory of a buffer whose contents nothing has defined
Undefined == {Garbage} \cup {SeedParticles(s) : s \in 1 .. MaxSeed}

\* createShaderStorageBuffers is entered at some time(nullptr)
InitStorageAny ==
  /\ InitEnvironment
  /\ InitDevice
  /\ InitDispatch
  /\ InitPick
  /\ InitFormat
  /\ createSyncObjects
  /\ descF = SMaxFramesInFlight
  /\ descI = SMaxFramesInFlight
  /\ MComputeDescriptorSets = CreateComputeDescriptorSets(SMaxFramesInFlight)
  /\ seed \in 1 .. MaxSeed
  /\ particles = Garbage
  /\ stagingBuffer = Garbage
  /\ storageBuffers = <<>>
  /\ shaderStorageBufferTemp = Garbage
  /\ copyPending = {}
  /\ pc = "createShaderStorageBuffers"

storageUnchanged ==
  UNCHANGED <<mainVars, deviceVars, dispatchVars, pickVars, formatVars, stepObs, descVars,
              MCurrentFrame,
              MTimelineValue, MFramebufferResized, MInFlightFences, swapVars,
              MShaderStorageBuffers, MUniformBuffersMapped, localVars, semaphore, queue,
              winVars, frameObs, computeDone, presentObs, resizedInPoll>>

\* the host array is seeded, then copied into the mapped staging buffer;
\* MShaderStorageBuffers.clear()
SeedAndStage ==
  /\ pc = "createShaderStorageBuffers"
  /\ particles' = SeedParticles(seed)
  /\ stagingBuffer' = particles'
  /\ storageBuffers' = <<>>
  /\ pc' = "storageLoop"
  /\ UNCHANGED <<seed, shaderStorageBufferTemp, copyPending>>
  /\ storageUnchanged

\* for (size_t i = 0; i < SMaxFramesInFlight; i++): createBuffer of a device-local
\* buffer; after the loop the function returns and the staging buffer is released
StorageLoop ==
  /\ pc = "storageLoop"
  /\ IF Len(storageBuffers) < SMaxFramesInFlight
     THEN /\ shaderStorageBufferTemp' = Garbage
          /\ pc' = "copyBuffer"
          /\ UNCHANGED stagingBuffer
     ELSE /\ stagingBuffer' = Released
          /\ pc' = "storageDone"
          /\ UNCHANGED shaderStorageBufferTemp
  /\ UNCHANGED <<seed, particles, storageBuffers, copyPending>>
  /\ storageUnchanged

\* copyBuffer: a one-time command buffer with one copy is submitted to MQueue
CopyBufferSubmit ==
  /\ pc = "copyBuffer"
  /\ copyPending' = copyPending \cup {[dst |-> Len(storageBuffers) + 1]}
  /\ pc' = "queueWaitIdle"
  /\ UNCHANGED <<seed, particles, stagingBuffer, storageBuffers, shaderStorageBufferTemp>>
  /\ storageUnchanged

\* the device executes the copy: the destination receives what the staging buffer
\* holds; a released staging buffer yields anything
CopyExecute ==
  /\ \E b \in copyPending :
       /\ copyPending' = copyPending \ {b}
       /\ \E data \in (IF stagingBuffer = Released THEN Undefined ELSE {stagingBuffer}) :
            IF b.dst <= Len(storageBuffers)
            THEN /\ storageBuffers' = [storageBuffers EXCEPT ![b.dst] = data]
                 /\ UNCHANGED shaderStorageBufferTemp
            ELSE /\ shaderStorageBufferTemp' = data
                 /\ UNCHANGED storageBuffers
  /\ UNCHANGED <<pc, seed, particles, stagingBuffer>>
  /\ storageUnchanged

QueueIdleNoWait(q) == TRUE
\* MQueue.waitIdle()
QueueIdle(q) == q = {}

\* copyBuffer returns once the queue is idle; the command buffer is freed
CopyBufferWaitIdle ==
  /\ pc = "queueWaitIdle"
  /\ QueueIdle(copyPending)
  /\ pc' = "emplaceBack"
  /\ UNCHANGED storageVars
  /\ storageUnchanged

\* MShaderStorageBuffers.emplace_back(std::move(shaderStorageBufferTemp))
EmplaceBack ==
  /\ pc = "emplaceBack"
  /\ storageBuffers' = Append(storageBuffers, shaderStorageBufferTemp)
  /\ pc' = "storageLoop"
  /\ UNCHANGED <<seed, particles, stagingBuffer, shaderStorageBufferTemp, copyPending>>
  /\ storageUnchanged

NextStorage ==
  \/ SeedAndStage
  \/ StorageLoop
  \/ CopyBufferSubmit
  \/ CopyExecute
  \/ CopyBufferWaitIdle
  \/ EmplaceBack

SpecStorage == InitStorageAny /\ [][NextStorage]_vars

(* --------------------------- createLogicalDevice ----------------------- *)
QueueCapabilities == {"graphics", "compute", "present"}

\* the queue families of the device pickPhysicalDevice chose: at least one of them
\* supports graphics
QueueFamilyLists ==
  {fs \in UNION {[1 .. n -> SUBSET QueueCapabilities] : n \in 1 .. MaxFamilies} :
     \E i \in DOMAIN fs : "graphics" \in fs[i]}

InitDeviceAny ==
  /\ InitEnvironment
  /\ InitDispatch
  /\ InitStorage
  /\ InitPick
  /\ InitFormat
  /\ createSyncObjects
  /\ descF = SMaxFramesInFlight
  /\ descI = SMaxFramesInFlight
  /\ MComputeDescriptorSets = CreateComputeDescriptorSets(SMaxFramesInFlight)
  /\ queueFamilies \in QueueFamilyLists
  /\ qfpIndex = 0
  /\ MQueueIndex = NoQueueIndex
  /\ queuesCreated = 0
  /\ pc = "createLogicalDevice"

deviceCreationUnchanged ==
  UNCHANGED <<mainVars, dispatchVars, storageVars, pickVars, formatVars, stepObs, descVars,
              MCurrentFrame,
              MTimelineValue, MFramebufferResized, MInFlightFences, swapVars,
              MShaderStorageBuffers, MUniformBuffersMapped, localVars, semaphore, queue,
              winVars, frameObs, computeDone, presentObs, resizedInPoll>>

QueueFamilySuitableGraphicsPresent(f) == "graphics" \in f /\ "present" \in f
\* (queueFlags & eGraphics) && (queueFlags & eCompute) && getSurfaceSupportKHR(...)
QueueFamilySuitable(f) == "graphics" \in f /\ "compute" \in f /\ "present" \in f

\* one iteration of the loop over queueFamilyProperties (qfpIndex counts from 0)
FindQueueFamily ==
  /\ pc = "createLogicalDevice"
  /\ IF qfpIndex < Len(queueFamilies)
     THEN IF QueueFamilySuitable(queueFamilies[qfpIndex + 1])
          THEN /\ MQueueIndex' = qfpIndex
               /\ pc' = "checkQueueIndex"
               /\ UNCHANGED qfpIndex
          ELSE /\ qfpIndex' = qfpIndex + 1
               /\ UNCHANGED <<pc, MQueueIndex>>
     ELSE /\ pc' = "checkQueueIndex"
          /\ UNCHANGED <<qfpIndex, MQueueIndex>>
  /\ UNCHANGED <<queueFamilies, queuesCreated>>
  /\ deviceCreationUnchanged

\* if (MQueueIndex == ~0) throw std::runtime_error(...)
CheckQueueIndex ==
  /\ pc = "checkQueueIndex"
  /\ pc' = IF MQueueIndex = NoQueueIndex THEN "fatal" ELSE "createDevice"
  /\ UNCHANGED deviceVars
  /\ deviceCreationUnchanged

\* one vk::DeviceQueueCreateInfo with queueCount = 1; MQueue is queue 0 of the family
CreateDevice ==
  /\ pc = "createDevice"
  /\ queuesCreated' = 1
  /\ pc' = "deviceCreated"
  /\ UNCHANGED <<queueFamilies, qfpIndex, MQueueIndex>>
  /\ deviceCreationUnchanged

NextDevice ==
  \/ FindQueueFamily
  \/ CheckQueueIndex
  \/ CreateDevice

SpecDevice == InitDeviceAny /\ [][NextDevice]_vars

(* --------------- pickPhysicalDevice, then createLogicalDevice ---------- *)
\* the queue families a physical device can report
DeviceFamilyLists ==
  UNION {[1 .. n -> SUBSET QueueCapabilities] : n \in 0 .. (MaxFamilies - 2)}

\* a physical device: capable stands for API version 1.3, the required extensions and
\* the required features together
PhysicalDevices ==
  {[capable |-> FALSE, families |-> <<>>]}
    \cup {[capable |-> TRUE, families |-> fs] : fs \in DeviceFamilyLists}

\* what enumeratePhysicalDevices can return
DeviceLists == UNION {[1 .. n -> PhysicalDevices] : n \in 1 .. MaxDevices}

InitPickAny ==
  /\ InitEnvironment
  /\ InitDispatch
  /\ InitStorage
  /\ InitFormat
  /\ createSyncObjects
  /\ descF = SMaxFramesInFlight
  /\ descI = SMaxFramesInFlight
  /\ MComputeDescriptorSets = CreateComputeDescriptorSets(SMaxFramesInFlight)
  /\ devices \in DeviceLists
  /\ MPhysicalDevice = 0
  /\ queueFamilies = <<>>
  /\ qfpIndex = 0
  /\ MQueueIndex = NoQueueIndex
  /\ queuesCreated = 0
  /\ pc = "pickPhysicalDevice"

\* the lambda of pickPhysicalDevice: supportsVulkan1_3 && supportsGraphics &&
\* supportsAllRequiredExtensions && supportsRequiredFeatures
DeviceSuitable(d) ==
  /\ d.capable
  /\ \E i \in DOMAIN d.families : "graphics" \in d.families[i]

LastSuitableDevice(devs) ==
  LET suitable == {i \in DOMAIN devs : DeviceSuitable(devs[i])} IN
    IF suitable = {} THEN 0 ELSE CHOOSE i \in suitable : \A j \in suitable : j <= i
\* std::ranges::find_if(devices, ...): the first device the lambda accepts, 0 for end()
FirstSuitableDevice(devs) ==
  LET suitable == {i \in DOMAIN devs : DeviceSuitable(devs[i])} IN
    IF suitable = {} THEN 0 ELSE CHOOSE i \in suitable : \A j \in suitable : i <= j

\* pickPhysicalDevice: MPhysicalDevice = *devIter, or throw; createLogicalDevice then
\* reads the queue families of MPhysicalDevice
PickPhysicalDevice ==
  /\ pc = "pickPhysicalDevice"
  /\ LET devIter == FirstSuitableDevice(devices) IN
       IF devIter /= 0
       THEN /\ MPhysicalDevice' = devIter
            /\ queueFamilies' = devices[devIter].families
            /\ pc' = "createLogicalDevice"
       ELSE /\ pc' = "fatal"
            /\ UNCHANGED <<MPhysicalDevice, queueFamilies>>
  /\ UNCHANGED <<devices, formatVars, qfpIndex, MQueueIndex, queuesCreated>>
  /\ UNCHANGED <<mainVars, dispatchVars, storageVars, stepObs, descVars, MCurrentFrame,
                 MTimelineValue, MFramebufferResized, MInFlightFences, swapVars,
                 MShaderStorageBuffers, MUniformBuffersMapped, localVars, semaphore, queue,
                 winVars, frameObs, computeDone, presentObs, resizedInPoll>>

NextPick ==
  \/ PickPhysicalDevice
  \/ FindQueueFamily
  \/ CheckQueueIndex
  \/ CreateDevice

SpecPick == InitPickAny /\ [][NextPick]_vars

(* ------------- the surface format over swapchain recreations ---------- *)
SurfaceFormats ==
  [format : {"eB8G8R8A8Srgb", "eR8G8B8A8Unorm"},
   colorSpace : {"eSrgbNonlinear", "eExtendedSrgbLinearEXT"}]

\* what getSurfaceFormatsKHR can return: at least one format
SurfaceFormatLists == UNION {[1 .. n -> SurfaceFormats] : n \in 1 .. MaxFormats}

\* find_if for eB8G8R8A8Srgb with eSrgbNonlinear, else availableFormats[0]
chooseSwapSurfaceFormat(availableFormats) ==
  IF \E i \in DOMAIN availableFormats : availableFormats[i] = PreferredSurfaceFormat
  THEN PreferredSurfaceFormat
  ELSE availableFormats[1]

\* initVulkan has created the surface and the device and calls createSwapChain
InitSurfaceFormat ==
  /\ pc = "initCreateSwapChain"
  /\ MCurrentFrame = 0
  /\ MFramebufferResized = FALSE
  /\ MSwapChain = 0
  /\ MSwapChainExtent = <<0, 0>>
  /\ MSwapChainImageViews = 0
  /\ swapChainsCreated = 0
  /\ createdInFrame = 0
  /\ MShaderStorageBuffers = <<>>
  /\ MUniformBuffersMapped = <<>>
  /\ MComputeDescriptorSets = <<>>
  /\ MInFlightFences = <<>>
  /\ MTimelineValue = 0
  /\ semaphore = 0
  /\ descF = SMaxFramesInFlight
  /\ descI = 0
  /\ NoLocals
  /\ queue = {}
  /\ framebufferSize = InitialFramebufferSize
  /\ events = {}
  /\ windowShouldClose = FALSE
  /\ resizes = 0
  /\ framesStarted = 0
  /\ framesReturned = 0
  /\ frameStartValue = 0
  /\ frameStartSlot = 0
  /\ signalPairs = <<>>
  /\ acquired = NoAcquire
  /\ computeDone = {}
  /\ lastPresent = NoPresent
  /\ examined = NoExamined
  /\ rebuildCause = "none"
  /\ resizedInPoll = FALSE
  /\ frameSteps = <<>>
  /\ recreateSteps = <<>>
  /\ exitCode = NoExit
  /\ stderrWritten = FALSE
  /\ runReturned = FALSE
  /\ initFailed = FALSE
  /\ InitDevice
  /\ InitDispatch
  /\ InitStorage
  /\ InitPick
  /\ MSwapChainSurfaceFormat = [format |-> "none", colorSpace |-> "none"]
  /\ swapChainImageFormat = "none"
  /\ imageViewFormat = "none"
  /\ pipelineColorAttachmentFormat = "none"
  /\ recordedRendering = NoRendering

surfaceFormatUnchanged ==
  UNCHANGED <<mainVars, deviceVars, dispatchVars, storageVars, pickVars, stepObs, descVars,
              MCurrentFrame, MTimelineValue, MFramebufferResized, MInFlightFences,
              MSwapChainExtent, createdInFrame, MShaderStorageBuffers,
              MUniformBuffersMapped, localVars, semaphore, queue, winVars, framesReturned,
              frameStartValue, frameStartSlot, signalPairs, acquired, computeDone,
              presentObs, resizedInPoll>>

\* createSwapChain, at startup and in recreateSwapChain: the surface format is chosen
\* from what the surface reports now and the swapchain is created with it
ChooseFormatCreateSwapChain ==
  /\ pc \in {"initCreateSwapChain", "recreateCreateSwapChain"}
  /\ \E availableFormats \in SurfaceFormatLists :
       MSwapChainSurfaceFormat' = chooseSwapSurfaceFormat(availableFormats)
  /\ swapChainImageFormat' = MSwapChainSurfaceFormat'.format
  /\ MSwapChain' = swapChainsCreated + 1
  /\ swapChainsCreated' = swapChainsCreated + 1
  /\ pc' = IF pc = "initCreateSwapChain" THEN "initCreateImageViews"
           ELSE "recreateCreateImageViews"
  /\ UNCHANGED <<MSwapChainImageViews, imageViewFormat, pipelineColorAttachmentFormat,
                 recordedRendering, framesStarted>>
  /\ surfaceFormatUnchanged

\* createImageViews: imageViewCreateInfo.format = MSwapChainSurfaceFormat.format
FormatCreateImageViews ==
  /\ pc \in {"initCreateImageViews", "recreateCreateImageViews"}
  /\ imageViewFormat' = MSwapChainSurfaceFormat.format
  /\ MSwapChainImageViews' = MSwapChain
  /\ pc' = IF pc = "initCreateImageViews" THEN "createGraphicsPipeline"
           ELSE "recordRendering"
  /\ UNCHANGED <<MSwapChain, swapChainsCreated, MSwapChainSurfaceFormat,
                 swapChainImageFormat, pipelineColorAttachmentFormat, recordedRendering,
                 framesStarted>>
  /\ surfaceFormatUnchanged

\* createGraphicsPipeline: pColorAttachmentFormats = &MSwapChainSurfaceFormat.format;
\* the rest of initVulkan does not touch the formats
createGraphicsPipeline ==
  /\ pc = "createGraphicsPipeline"
  /\ pipelineColorAttachmentFormat' = MSwapChainSurfaceFormat.format
  /\ pc' = "recordRendering"
  /\ UNCHANGED <<MSwapChain, swapChainsCreated, MSwapChainImageViews,
                 MSwapChainSurfaceFormat, swapChainImageFormat, imageViewFormat,
                 recordedRendering, framesStarted>>
  /\ surfaceFormatUnchanged

\* recordGraphicsCommandBuffer of one frame: beginRendering with the view of the
\* acquired image as color attachment, bindPipeline(MGraphicsPipeline), draw
RecordRendering ==
  /\ pc = "recordRendering"
  /\ framesStarted < MaxFrames
  /\ framesStarted' = framesStarted + 1
  /\ recordedRendering' = [pipeline |-> pipelineColorAttachmentFormat,
                           attachment |-> imageViewFormat,
                           image |-> swapChainImageFormat]
  /\ pc' = "afterPresent"
  /\ UNCHANGED <<MSwapChain, swapChainsCreated, MSwapChainImageViews,
                 MSwapChainSurfaceFormat, swapChainImageFormat, imageViewFormat,
                 pipelineColorAttachmentFormat>>
  /\ surfaceFormatUnchanged

\* the branch after presentKHR: recreateSwapChain, or the next frame
AfterPresent ==
  /\ pc = "afterPresent"
  /\ \/ pc' = "recordRendering"
     \/ /\ swapChainsCreated <= MaxResizes
        /\ pc' = "recreateCleanup"
  /\ UNCHANGED <<MSwapChain, swapChainsCreated, MSwapChainImageViews, formatVars,
                 framesStarted>>
  /\ surfaceFormatUnchanged

\* cleanupSwapChain inside recreateSwapChain
FormatCleanupSwapChain ==
  /\ pc = "recreateCleanup"
  /\ MSwapChainImageViews' = 0
  /\ MSwapChain' = 0
  /\ pc' = "recreateCreateSwapChain"
  /\ UNCHANGED <<swapChainsCreated, formatVars, framesStarted>>
  /\ surfaceFormatUnchanged

NextSurfaceFormat ==
  \/ ChooseFormatCreateSwapChain
  \/ FormatCreateImageViews
  \/ createGraphicsPipeline
  \/ RecordRendering
  \/ AfterPresent
  \/ FormatCleanupSwapChain

SpecSurfaceFormat == InitSurfaceFormat /\ [][NextSurfaceFormat]_vars

(* ------------------------------- claims -------------------------------- *)
IsCompute(b) == b.kind = "compute"
IsGraphics(b) == b.kind = "graphics"

\* C1: when the graphics draw of a frame has begun vertex input, the compute dispatch
\* of that frame has completed and the vertex buffer holds what it wrote; when a compute
\* dispatch runs, the compute dispatch of every earlier frame has completed.
C1_ComputeBeforeGraphics ==
  /\ \A b \in queue :
       (IsGraphics(b) /\ b.st = "vertexInput") =>
          /\ b.frame \in computeDone
          /\ b.read = b.frame
          /\ \A c \in queue : ~(IsCompute(c) /\ c.frame = b.frame)
  /\ \A b \in queue :
       (IsCompute(b) /\ b.st = "running") =>
          \A n \in 0 .. (b.frame - 1) : n \in computeDone

C1_Witness ==
  \E b \in queue : IsGraphics(b) /\ b.st = "vertexInput" /\ b.frame >= 1

\* C2: with V the counter at frame start, the compute batch of the frame waits for V
\* and signals V+1, the graphics batch waits for V+1 and signals V+2.
C2_SubmissionValues ==
  \A b \in queue :
    b.frame = CurrentFrameNumber =>
      /\ IsCompute(b) => (b.wait = frameStartValue /\ b.signal = frameStartValue + 1)
      /\ IsGraphics(b) => (b.wait = frameStartValue + 1 /\ b.signal = frameStartValue + 2)

C2_Witness ==
  /\ pc = "waitSemaphores"
  /\ frameStartValue > 0
  /\ \E b \in queue : IsCompute(b) /\ b.frame = CurrentFrameNumber
  /\ \E b \in queue : IsGraphics(b) /\ b.frame = CurrentFrameNumber

PairValues(p) == {p[1], p[2]}

\* C3: after k drawFrame calls that returned normally the counter equals 2k (inside a
\* frame it is 2k or 2k+2), and no two frames use a common signal value.
C3_TimelineCounter ==
  /\ pc \in {"mainLoop", "glfwPollEvents", "drawFrame", "waitIdle", "cleanup", "done"}
       => MTimelineValue = 2 * framesReturned
  /\ MTimelineValue \in {2 * framesReturned, 2 * framesReturned + 2}
  /\ \A m, n \in DOMAIN signalPairs :
       m /= n => PairValues(signalPairs[m]) \cap PairValues(signalPairs[n]) = {}

C3_Witness ==
  /\ pc = "mainLoop"
  /\ framesReturned >= 2
  /\ swapChainsCreated >= 2
  /\ Len(signalPairs) >= 2

\* C4: the compute dispatch of frame n >= 1 reads the buffer that the compute dispatch
\* of frame n-1 wrote, and that write has completed when the read begins.
C4_ReadAfterWriteChain ==
  \A b \in queue :
    (IsCompute(b) /\ b.st = "running" /\ b.frame >= 1) =>
       /\ b.read = b.frame - 1
       /\ (b.frame - 1) \in computeDone

C4_Witness ==
  /\ swapChainsCreated >= 2
  /\ \E b \in queue : IsCompute(b) /\ b.st = "running" /\ b.frame >= 2

\* C5: for every frame count F >= 2 and slot i, the set of slot i binds slot
\* (i-1) mod F (mathematically) as read source and slot i as write destination.
C5_ReadsPreviousSlot ==
  \A i \in DOMAIN MComputeDescriptorSets :
    /\ MComputeDescriptorSets[i].lastFrame = PreviousSlot(i, descF)
    /\ MComputeDescriptorSets[i].currentFrame = i

\* C6: present is called only after the host has seen the semaphore at the frame's
\* graphics signal value V+2 or more, and it waits for no semaphore.
C6_PresentAfterGraphics ==
  lastPresent.frame /= NoFrame =>
    /\ lastPresent.waited = "eSuccess"
    /\ lastPresent.semaphore >= frameStartValue + 2
    /\ lastPresent.graphicsDone
    /\ lastPresent.waitSemaphoreCount = 0

C6_Witness == lastPresent.frame >= 1

\* C7: when the host is about to overwrite the slot's uniform buffer or to reset and
\* re-record one of the slot's command buffers, no batch of an earlier frame that uses
\* the slot is still on the queue.
C7_HostReusesIdleSlot ==
  pc \in {"updateUniformBuffer", "submitCompute", "submitGraphics"} =>
    \A b \in queue :
      ((IsCompute(b) \/ IsGraphics(b)) /\ b.frame < CurrentFrameNumber) => b.slot /= MCurrentFrame

C7_Witness ==
  /\ pc = "updateUniformBuffer"
  /\ framesStarted > SMaxFramesInFlight

\* the present result or the resize flag examined by the current frame asks for a
\* recreation
RecreationTriggered ==
  /\ examined.frame /= NoFrame
  /\ examined.result \in {"eErrorOutOfDateKHR", "eSuboptimalKHR"} \/ examined.resized

\* C8: when present returned out-of-date or suboptimal, or the flag was raised, the
\* frame clears the flag before recreating, creates exactly one swapchain, advances
\* the frame index and returns without a fatal error.
C8_RecreateBranch ==
  /\ pc = "recreateSwapChain" => ~MFramebufferResized
  /\ RecreationTriggered =>
       /\ pc /= "fatal"
       /\ pc = "advance" => createdInFrame = 1
       /\ pc \in {"mainLoop", "glfwPollEvents", "drawFrame", "waitIdle", "cleanup", "done"} =>
            /\ createdInFrame = 1
            /\ framesReturned = framesStarted
            /\ MCurrentFrame = (frameStartSlot + 1) % SMaxFramesInFlight

C8_Witness ==
  /\ RecreationTriggered
  /\ examined.result = "eSuboptimalKHR"
  /\ pc = "mainLoop"

C10_OneRebuildPerResize ==
  /\ rebuildCause /= "callbackInRecreate"
  /\ createdInFrame > 0 => RecreationTriggered

\* C11: the render area, the viewport and the scissor recorded into a graphics command
\* buffer equal the extent of the most recently created swapchain, also in the frames
\* recorded after a recreation.
C11_RecordedExtent ==
  \A b \in queue :
    IsGraphics(b) =>
      /\ b.cmd.renderArea = MSwapChainExtent
      /\ b.cmd.viewport = MSwapChainExtent
      /\ b.cmd.scissor = MSwapChainExtent

C11_Witness ==
  /\ swapChainsCreated >= 2
  /\ MSwapChainExtent /= InitialFramebufferSize
  /\ \E b \in queue : IsGraphics(b) /\ b.frame = CurrentFrameNumber

IsPrefix(s, t) == Len(s) <= Len(t) /\ \A i \in 1 .. Len(s) : s[i] = t[i]

\* C12 as stated: recreateSwapChain waits for the device to be idle, destroys the views
\* and the swapchain, polls the window size until it is nonzero, then creates the new
\* swapchain and its views.
C12_RecreateOrder ==
  IsPrefix(recreateSteps, <<"waitIdle", "destroy", "poll", "createSwapChain", "createImageViews">>)

RecreateStepOrder == <<"poll", "waitIdle", "destroy", "createSwapChain", "createImageViews">>

\* C12 amended: recreateSwapChain first polls the window size until both dimensions are
\* nonzero, then waits for the device to be idle, then destroys the views and the
\* swapchain, then creates the new swapchain and its views; the old swapchain is alive
\* during the poll and the size that ended the poll is nonzero.
C12_RecreateOrderPollFirst ==
  /\ IsPrefix(recreateSteps, RecreateStepOrder)
  /\ pc \in {"recreateLoopBody", "glfwWaitEvents", "recreateWaitIdle", "cleanupSwapChain"} =>
       (MSwapChain /= 0 /\ MSwapChainImageViews = MSwapChain)
  /\ pc \in {"recreateWaitIdle", "cleanupSwapChain", "createSwapChain", "createImageViews"} =>
       ~ZeroArea(size)
  /\ pc = "createSwapChain" => (MSwapChain = 0 /\ MSwapChainImageViews = 0)
  /\ (pc = "advance" /\ createdInFrame > 0) => recreateSteps = RecreateStepOrder

C12_Witness ==
  /\ pc = "advance"
  /\ recreateSteps = RecreateStepOrder
  /\ resizes >= 2

RecreatePcs == {"recreateSwapChain", "recreateLoopBody", "glfwWaitEvents", "recreateWaitIdle",
                "cleanupSwapChain", "createSwapChain", "createImageViews"}

\* a step taken while recreateSwapChain runs submits, acquires and presents nothing
NoFrameOperationInRecreate ==
  pc \in RecreatePcs =>
    /\ \A b \in queue' : \E c \in queue : c.kind = b.kind /\ c.frame = b.frame
    /\ framesStarted' = framesStarted
    /\ lastPresent' = lastPresent

\* C13: while recreateSwapChain runs no batch is submitted, no image is acquired and no
\* present is issued, and when the views and the swapchain are destroyed nothing
\* submitted to the queue is outstanding.
C13_StopTheWorld ==
  /\ [](pc = "cleanupSwapChain" => queue = {})
  /\ [][NoFrameOperationInRecreate]_vars

C13_Witness ==
  /\ pc = "cleanupSwapChain"
  /\ lastPresent.frame = CurrentFrameNumber
  /\ examined.result = "eSuboptimalKHR"
  /\ framesStarted >= 2

FrameStepOrder == <<"Acquire", "WaitFence", "ResetFence", "UpdateUniform", "SubmitCompute",
                    "SubmitGraphics", "Present", "Advance">>

\* C14: a drawFrame executes Acquire, WaitFence, the fence reset, UpdateUniform,
\* SubmitCompute, SubmitGraphics, Present, Advance once each in this order; the frame
\* index lies in 0..F-1 and the n-th frame uses slot n mod F.
C14_FrameSteps ==
  /\ IsPrefix(frameSteps, FrameStepOrder)
  /\ (pc \in {"mainLoop", "glfwPollEvents", "drawFrame", "waitIdle", "cleanup", "done"}
       /\ framesStarted > 0) => frameSteps = FrameStepOrder
  /\ MCurrentFrame \in Slots
  /\ framesStarted > 0 => frameStartSlot = CurrentFrameNumber % SMaxFramesInFlight
  /\ pc \in {"waitForFences", "resetFences", "updateUniformBuffer", "submitCompute",
              "submitGraphics", "waitSemaphores", "presentKHR"} =>
       MCurrentFrame = CurrentFrameNumber % SMaxFramesInFlight

C14_Witness ==
  /\ pc = "mainLoop"
  /\ framesReturned >= 3
  /\ frameSteps = FrameStepOrder

\* C15: when Acquire reported out-of-date, the fence wait of the frame can complete, so
\* that the frame reaches Present.
C15_AcquireOutOfDateContinues ==
  (pc = "waitForFences" /\ result = "eErrorOutOfDateKHR") =>
     MInFlightFences[MCurrentFrame] \in {"pending", "signaled"}

\* C16: a wait that timed out is repeated; the frame passes the fence wait and the
\* semaphore wait only with a success result, and a timeout is never fatal.
C16_TimeoutRetried ==
  /\ waitResult = "eTimeout" => pc \in {"waitForFences", "waitSemaphores"}
  /\ pc \in {"resetFences", "updateUniformBuffer", "submitCompute", "submitGraphics",
              "presentKHR"} => waitResult = "eSuccess"

C16_Witness ==
  /\ pc = "waitSemaphores"
  /\ waitResult = "eTimeout"
  /\ semaphore >= timeline.graphicsSignal
  /\ framesStarted >= 2

\* C17: main returns 0 exactly when run() returned normally (the loop saw the exit
\* signal); every fatal error of initVulkan or of the frame loop reaches main, is written
\* to standard error and gives a nonzero exit code; after a fatal error of initVulkan no
\* frame is ever drawn.
C17_ExitCode ==
  /\ pc = "exited" =>
       /\ exitCode = 0 <=> runReturned
       /\ runReturned => (windowShouldClose /\ ~stderrWritten)
       /\ ~runReturned => (exitCode % 256 /= 0 /\ stderrWritten)
  /\ pc /= "exited" => (exitCode = NoExit /\ ~stderrWritten)
  /\ initFailed => (framesStarted = 0 /\ pc \in {"fatal", "exited"} /\ ~runReturned)

C17_Witness ==
  /\ pc = "exited"
  /\ initFailed
  /\ exitCode = 0 - 1

\* C18: the recorded dispatch has particle count / work-group size groups with no
\* remainder lost; a particle count that is not a multiple of the work-group size does
\* not get as far as a recorded dispatch.
C18_DispatchCount ==
  pc = "computeRecorded" =>
    /\ particleCount % WorkGroupSize = 0
    /\ dispatchGroups * WorkGroupSize = particleCount

\* C19: every storage buffer created holds the host-seeded array; no copy is pending
\* when the next buffer is created or the staging buffer is released; at the end
\* there are F buffers.
C19_IdenticalUpload ==
  /\ \A i \in DOMAIN storageBuffers : storageBuffers[i] = particles
  /\ pc \in {"emplaceBack", "storageLoop", "storageDone"} => copyPending = {}
  /\ pc = "storageDone" =>
       /\ Len(storageBuffers) = SMaxFramesInFlight
       /\ particles = SeedParticles(seed)
       /\ stagingBuffer = Released

C19_Witness ==
  /\ pc = "storageDone"
  /\ Len(storageBuffers) = SMaxFramesInFlight
  /\ storageBuffers[1] = SeedParticles(seed)
  /\ storageBuffers[SMaxFramesInFlight] = storageBuffers[1]

\* the queue families that support graphics, compute and presentation together
FullFamilies == {i \in DOMAIN queueFamilies : QueueCapabilities \subseteq queueFamilies[i]}

OnlySwapChainRebuilt ==
  /\ MComputeDescriptorSets' = MComputeDescriptorSets
  /\ \A s \in Slots :
       /\ MShaderStorageBuffers'[s] /= MShaderStorageBuffers[s] =>
            (MShaderStorageBuffers'[s] \in computeDone' /\ pc \notin RecreatePcs)
       /\ MUniformBuffersMapped'[s] /= MUniformBuffersMapped[s] =>
            (MUniformBuffersMapped'[s] = CurrentFrameNumber /\ pc = "updateUniformBuffer")
  /\ pc \in RecreatePcs =>
       /\ MCurrentFrame' = MCurrentFrame
       /\ MTimelineValue' = MTimelineValue
       /\ semaphore' = semaphore
       /\ MInFlightFences' = MInFlightFences
  /\ pc \notin RecreatePcs =>
       /\ MSwapChain' = MSwapChain
       /\ MSwapChainImageViews' = MSwapChainImageViews
       /\ MSwapChainExtent' = MSwapChainExtent

\* C21: drawFrame and recreateSwapChain never rewrite the descriptor sets and never
\* rebuild the particle or uniform buffers; recreateSwapChain changes the swapchain,
\* its views and its extent and leaves the frame index, the timeline counter, the
\* timeline semaphore and the fences unchanged; the swapchain changes nowhere else.
C21_RecreateEffect == [][OnlySwapChainRebuilt]_vars

C21_Witness ==
  /\ pc = "advance"
  /\ createdInFrame = 1
  /\ MSwapChain = 2
  /\ MSwapChainImageViews = 2
  /\ MCurrentFrame = 1
  /\ MTimelineValue = 4
  /\ semaphore = 4

FramePcs == {"waitForFences", "resetFences", "updateUniformBuffer", "submitCompute",
             "submitGraphics", "waitSemaphores", "presentKHR", "advance"}

\* the loop is left only from its head with the exit signal set, a drawFrame in progress
\* (recreateSwapChain included) is left only by Advance or by a throw, and cleanup
\* follows a waitIdle that found nothing outstanding
ExitOnlyAtLoopHead ==
  /\ pc' = "waitIdle" => (pc \in {"mainLoop", "waitIdle"} /\ windowShouldClose)
  /\ pc \in (FramePcs \cup RecreatePcs) =>
       /\ pc' \in (FramePcs \cup RecreatePcs \cup {"mainLoop", "fatal"})
       /\ pc' = "mainLoop" => (pc = "advance" /\ framesReturned' = framesReturned + 1)
  /\ pc' = "cleanup" => (pc \in {"waitIdle", "cleanup"} /\ queue = {})

\* the wait of a drawFrame in progress is for something that will happen
FrameCanProceed ==
  /\ pc = "waitForFences" => MInFlightFences[MCurrentFrame] \in {"pending", "signaled"}
  /\ pc = "waitSemaphores" =>
       (semaphore >= HostWaitValue(timeline)
          \/ \E b \in queue : b.signal = HostWaitValue(timeline))

\* C22: the exit condition is evaluated only at the head of a main-loop iteration; a
\* drawFrame that has started runs to Advance or to a fatal error whatever the exit
\* signal is, and after the loop the host waits for device idle before cleanup.
C22_ExitAtLoopHead == [][ExitOnlyAtLoopHead]_vars /\ []FrameCanProceed

\* C23: the image and the view a graphics batch renders to, and the image a present
\* request names, are those of the index acquireNextImage returned in the same frame
\* and of the swapchain it was acquired from; the slot fence was signaled when the
\* host passed the fence wait; from Acquire to Present the swapchain is not recreated.
C23_AcquiredImageOnly ==
  /\ pc = "resetFences" => MInFlightFences[MCurrentFrame] = "signaled"
  /\ \A b \in queue :
       IsGraphics(b) =>
         /\ b.frame = CurrentFrameNumber
         /\ b.cmd.dst = acquired.index
         /\ b.cmd.image = acquired.swapChain
         /\ b.cmd.view = acquired.swapChain
         /\ acquired.swapChain = MSwapChain
  /\ \A b \in queue :
       (b.kind = "present" /\ b.frame = CurrentFrameNumber /\ acquired /= NoAcquire) =>
         (b.cmd.image = acquired.index /\ b.cmd.swapChain = acquired.swapChain)
  /\ pc \in (FramePcs \ {"advance"}) =>
       /\ imageIndex = acquired.index
       /\ MSwapChain = acquired.swapChain
       /\ MSwapChainImageViews = acquired.swapChain
       /\ createdInFrame = 0

C23_Witness ==
  /\ \E b \in queue :
       /\ IsGraphics(b) /\ b.st = "vertexInput"
       /\ b.cmd.dst = 2 /\ b.cmd.image = 2 /\ b.slot = 1
  /\ acquired = [index |-> 2, swapChain |-> 2]

\* C24: when drawFrame starts and when recreateSwapChain is entered the semaphore has
\* reached the host's timeline counter and no compute or graphics batch is outstanding;
\* the batches outstanding at any time belong to one frame, the current one.
C24_OneFrameOutstanding ==
  /\ pc \in {"drawFrame", "recreateSwapChain"} =>
       /\ semaphore = MTimelineValue
       /\ \A b \in queue : ~IsCompute(b) /\ ~IsGraphics(b)
  /\ \A b \in queue : (IsCompute(b) \/ IsGraphics(b)) => b.frame = CurrentFrameNumber
  /\ \A a, b \in queue : (IsCompute(a) \/ IsGraphics(a)) /\ (IsCompute(b) \/ IsGraphics(b))
                            => a.frame = b.frame

C24_Witness ==
  /\ pc = "recreateSwapChain"
  /\ framesStarted = 2
  /\ MTimelineValue = 4
  /\ semaphore = 4
  /\ \E b \in queue : b.kind = "present"

\* a fence gets a pending signal only from acquireNextImage of its own slot, and becomes
\* signaled only by that pending signal, in a step that completes no batch
FenceSignaledOnlyByAcquire ==
  \A s \in Slots :
    /\ (MInFlightFences'[s] = "pending" /\ MInFlightFences[s] /= "pending") =>
         /\ pc = "drawFrame"
         /\ s = MCurrentFrame
         /\ MInFlightFences[s] = "unsignaled"
         /\ queue' = queue
    /\ (MInFlightFences'[s] = "signaled" /\ MInFlightFences[s] /= "signaled") =>
         /\ MInFlightFences[s] = "pending"
         /\ queue' = queue
         /\ semaphore' = semaphore

\* C25: every slot fence is unsignaled, with no signal pending, when drawFrame starts,
\* so the fence handed to acquireNextImage is unsignaled; a fence is signaled only by
\* an image acquisition and never by a compute or graphics submission.
C25_FencesUnsignaledAtStart ==
  /\ [](pc \in {"mainLoop", "glfwPollEvents", "drawFrame"} =>
          \A s \in Slots : MInFlightFences[s] = "unsignaled")
  /\ [][FenceSignaledOnlyByAcquire]_vars

C25_Witness ==
  /\ pc = "drawFrame"
  /\ framesReturned = 2
  /\ MCurrentFrame = 0
  /\ \A s \in Slots : MInFlightFences[s] = "unsignaled"
  /\ computeDone = {0, 1}

\* the signal values handed to the queue so far, in submission order
SubmittedSignals(pairs) ==
  [i \in 1 .. (2 * Len(pairs)) |-> pairs[(i + 1) \div 2][2 - (i % 2)]]

\* C26: a batch signals a value greater than the value it waits for, greater than the
\* semaphore's value while it is outstanding and greater than every value chosen
\* before it; the semaphore never decreases and never exceeds the host's counter.
C26_TimelineMonotonic ==
  /\ [](/\ semaphore <= MTimelineValue
        /\ \A b \in queue :
             (IsCompute(b) \/ IsGraphics(b)) =>
               (b.signal > semaphore /\ b.signal > b.wait /\ b.signal <= MTimelineValue)
        /\ LET sig == SubmittedSignals(signalPairs) IN
             \A i, j \in DOMAIN sig : i < j => sig[i] < sig[j])
  /\ [][semaphore' >= semaphore /\ MTimelineValue' >= MTimelineValue]_vars

C26_Witness ==
  /\ Len(signalPairs) = 3
  /\ SubmittedSignals(signalPairs) = <<1, 2, 3, 4, 5, 6>>
  /\ semaphore = 5
  /\ \E b \in queue : IsGraphics(b) /\ b.signal = 6

\* the device has a queue family that supports graphics, compute and presentation
HasFullFamily(d) == \E i \in DOMAIN d.families : QueueCapabilities \subseteq d.families[i]

\* startup failed with "Could not find a queue for graphics and present"
NoQueueFamilyError == pc = "fatal" /\ MPhysicalDevice /= 0

\* C27: when some enumerated device satisfies the capability requirements and has a
\* graphics+compute+present family, startup does not fail with the no-queue-family
\* error.
C27_SuitableDeviceExists ==
  (\E i \in DOMAIN devices : DeviceSuitable(devices[i]) /\ HasFullFamily(devices[i]))
    => ~NoQueueFamilyError

\* C27 as amended: the device picked is the first enumerated one that satisfies the
\* capability requirements (one graphics family included); when that device has a
\* graphics+compute+present family, startup does not fail with the no-queue-family
\* error, and otherwise it does not get past createLogicalDevice.
C27_FirstSuitableDeviceDecides ==
  LET suitable == {i \in DOMAIN devices : DeviceSuitable(devices[i])} IN
    /\ MPhysicalDevice /= 0 =>
         /\ MPhysicalDevice \in suitable
         /\ \A j \in suitable : MPhysicalDevice <= j
         /\ queueFamilies = devices[MPhysicalDevice].families
    /\ (\E i \in suitable : HasFullFamily(devices[i]) /\ \A j \in suitable : i <= j)
         => ~NoQueueFamilyError
    /\ pc \in {"createDevice", "deviceCreated"} => HasFullFamily(devices[MPhysicalDevice])
    /\ (pc = "fatal" /\ MPhysicalDevice = 0) => suitable = {}

C27_Witness ==
  /\ pc = "deviceCreated"
  /\ Len(devices) = 2
  /\ MPhysicalDevice = 1
  /\ DeviceSuitable(devices[2])
  /\ ~HasFullFamily(devices[2])

\* C28: in every frame that records rendering, the color attachment format the
\* graphics pipeline was created with is the format of the current swapchain and of
\* its image views, after any number of recreations.
C28_PipelineFormatMatches ==
  /\ recordedRendering /= NoRendering =>
       /\ recordedRendering.pipeline = recordedRendering.attachment
       /\ recordedRendering.pipeline = recordedRendering.image
  /\ pc = "recordRendering" =>
       /\ pipelineColorAttachmentFormat = MSwapChainSurfaceFormat.format
       /\ pipelineColorAttachmentFormat = imageViewFormat

\* C29: recreateSwapChain sleeps in glfwWaitEvents with nothing to deliver only while
\* the framebuffer has zero area: once the size is nonzero and the event that made it
\* so has been delivered, it returns without a further window event.
C29_NoFurtherEventNeeded ==
  (pc = "glfwWaitEvents" /\ events = {}) => ZeroArea(framebufferSize)

\* C30: however run() stops drawing frames, by the exit signal or by a fatal error, the
\* host has waited for the device to be idle and cleanup has run when the process
\* exits.
C30_CleanupOnEveryPath ==
  (pc = "exited" /\ ~initFailed) => (runReturned /\ DeviceIdle(queue))

====
